---- MODULE Spec2Model ----
(***************************************************************************)
(* Model of src/watcher.js: the existence prober (checkAccount), the       *)
(* bootstrap binary search (binarySearchLatest), startup reconciliation    *)
(* (initializeWatcher), the forward polling loop (continuousPolling), the  *)
(* durable store (loadCache / saveCache), the status read paths and the    *)
(* shutdown handlers.                                                      *)
(*                                                                         *)
(* Each await of the source is a position of the tracker (pc); an action   *)
(* is the code that runs from the completion of one await to the next.     *)
(***************************************************************************)
EXTENDS Integers, FiniteSets, Sequences, TLC

(***************************************************************************)
(* Bounds of the model.  The source sets MAX_ID = 5000000 and              *)
(* IDS_TO_CHECK = 10; the model scales both down and bounds the remote     *)
(* identifier space.                                                       *)
(***************************************************************************)
MaxIdBound == 3

WindowBound == 2

\* binarySearchLatest on its own is run on every range within 1..MaxSearch
MaxSearch == 8

(***************************************************************************)
(* Configuration constants (watcher.js 27-30).                             *)
(***************************************************************************)
MIN_ID == 1

MAX_ID == MaxIdBound

IDS_TO_CHECK == WindowBound

\* The remote identifier space: no account ever exists above MaxWorld
MaxWorld == MAX_ID + IDS_TO_CHECK

Ids == 1..MaxWorld

(***************************************************************************)
(* Values.  Names are numbers: account i is named i, Unknown is the        *)
(* 'Unknown' sentinel of line 58, NoField a key the payload does not       *)
(* carry, StaleName(i) a name account i carried in an earlier run.         *)
(***************************************************************************)
Null == [null |-> TRUE]

NoData == [nodata |-> TRUE]

Unknown == 0

NoField == -1

StaleName(i) == 0 - (i + 1)

\* The payload the remote service returns for account i: some payloads
\* carry "Username", some "username", some neither.
Payload(i) ==
    [Username |-> IF i % 3 = 1 THEN i ELSE NoField,
     username |-> IF i % 3 = 2 THEN i ELSE NoField]

VARIABLES
    exists,         \* remote service: the ids at which an account exists
    cache,          \* durable store: content of CACHE_FILE (Null: no file)
    latestAccount,  \* global latestAccount (line 35)
    isSearching,    \* global isSearching (line 36)
    pc,             \* position of the tracker
    low, high, latestFound,   \* locals of binarySearchLatest
    argLow, argHigh,          \* the arguments binarySearchLatest was called with
    probes,                   \* checkAccount calls made by the running search
    startId, endId, id,       \* locals of continuousPolling
    outcome,        \* class of the response the last tracker step handled
                    \* ("none": it handled none)
    saveError,      \* the most recent saveCache logged 'Error saving cache'
    timers,         \* pending setTimeout(initializeWatcher) callbacks (line 189)
    inFlight,       \* checkAccount requests of the tracker awaiting their answer
    loops,          \* continuousPolling calls that entered the loop of line 138
    response        \* the answer GET /latest served last (code 0: none served)

vars == <<exists, cache, latestAccount, isSearching, pc, low, high, latestFound,
          argLow, argHigh, probes, startId, endId, id, outcome, saveError,
          timers, inFlight, loops, response>>

searchVars == <<low, high, latestFound, argLow, argHigh, probes>>

pollVars == <<startId, endId, id>>

(***************************************************************************)
(* Responses of the remote service to GET /users/<i>.  status 0 stands     *)
(* for a request that got no response (timeout, connection failure).       *)
(***************************************************************************)
Failures == {[status |-> 500, data |-> NoData], [status |-> 0, data |-> NoData]}

Denials == {[status |-> s, data |-> NoData] : s \in {404, 401, 400}}

Responses(i) ==
    IF i \in exists
    THEN {[status |-> 200, data |-> Payload(i)]} \cup Failures
    ELSE Denials \cup Failures

DefinitiveResponses(i) ==
    IF i \in exists
    THEN {[status |-> 200, data |-> Payload(i)]}
    ELSE Denials

\* The three outcomes of a probe (spec 4.1).
Class(resp) ==
    IF resp.status = 200 /\ resp.data # NoData THEN "Found"
    ELSE IF resp.status \in {404, 401, 400} THEN "Absent"
    ELSE "Indeterminate"

(***************************************************************************)
(* checkAccount (lines 43-70): a record for 200 with data, null otherwise  *)
(* (a denial, or an error caught at line 63).                              *)
(***************************************************************************)
ResolveUsername(data) ==
    IF data.Username # NoField THEN data.Username
    ELSE IF data.username # NoField THEN data.username
    ELSE Unknown

CheckAccount(i, resp) ==
    IF resp.status = 200 /\ resp.data # NoData
    THEN [id |-> i, username |-> ResolveUsername(resp.data), data |-> resp.data]
    ELSE Null

(***************************************************************************)
(* loadCache (101-113) and saveCache (118-124).  readOk / writeOk: the     *)
(* file operation did not throw.                                           *)
(***************************************************************************)
LoadCache(readOk) == IF readOk THEN cache ELSE Null

SaveCache(account, writeOk) ==
    /\ cache' = IF writeOk THEN account ELSE cache
    /\ saveError' = ~writeOk

(***************************************************************************)
(* The records a previous run can have left in the store.                  *)
(***************************************************************************)
Fresh(i) == CheckAccount(i, [status |-> 200, data |-> Payload(i)])

Stale(i) == [Fresh(i) EXCEPT !.username = StaleName(i)]

CachedRecords == {Fresh(i) : i \in Ids} \cup {Stale(i) : i \in Ids}

(***************************************************************************)
(* binarySearchLatest (75-96).                                             *)
(***************************************************************************)
Mid == (low + high) \div 2

\* lines 76-79: entry; the loop condition decides between the first probe
\* and the return
EnterSearch(l, h, back) ==
    /\ low' = l
    /\ high' = h
    /\ latestFound' = l
    /\ argLow' = l
    /\ argHigh' = h
    /\ probes' = 0
    /\ pc' = IF l <= h THEN "search" ELSE back

\* SearchStep searching downward after a Found (high = mid - 1 in both branches)
SearchStepDownward(resp, back) ==
    LET account == CheckAccount(Mid, resp)
    IN /\ pc = "search"
       /\ latestFound' = IF account # Null THEN Mid ELSE latestFound
       /\ low' = low
       /\ high' = Mid - 1
       /\ probes' = probes + 1
       /\ outcome' = Class(resp)
       /\ pc' = IF low <= Mid - 1 THEN "search" ELSE back
       /\ UNCHANGED <<argLow, argHigh>>

\* SearchStep continuing from mid itself after a Found (low = mid)
SearchStepNoProgress(resp, back) ==
    LET account == CheckAccount(Mid, resp)
        newLow == IF account # Null THEN Mid ELSE low
        newHigh == IF account # Null THEN high ELSE Mid - 1
    IN /\ pc = "search"
       /\ latestFound' = IF account # Null THEN Mid ELSE latestFound
       /\ low' = newLow
       /\ high' = newHigh
       /\ probes' = IF probes < MaxSearch THEN probes + 1 ELSE probes
       /\ outcome' = Class(resp)
       /\ pc' = IF newLow <= newHigh THEN "search" ELSE back
       /\ UNCHANGED <<argLow, argHigh>>

\* lines 83-92: the response to the probe at mid arrives
SearchStep(resp, back) ==
    LET account == CheckAccount(Mid, resp)
        newLow == IF account # Null THEN Mid + 1 ELSE low
        newHigh == IF account # Null THEN high ELSE Mid - 1
    IN /\ pc = "search"
       /\ latestFound' = IF account # Null THEN Mid ELSE latestFound
       /\ low' = newLow
       /\ high' = newHigh
       /\ probes' = probes + 1
       /\ outcome' = Class(resp)
       /\ pc' = IF newLow <= newHigh THEN "search" ELSE back
       /\ UNCHANGED <<argLow, argHigh>>

(***************************************************************************)
(* Accounting of what the event loop holds for the tracker: a step that    *)
(* handles the answer of a probe takes one request out of flight, and a    *)
(* step that ends at an await of checkAccount has put one in flight.       *)
(***************************************************************************)
Awaiting(p) == p \in {"verify", "search", "confirm", "poll"}

Requests(answered) ==
    inFlight' = inFlight - answered + (IF Awaiting(pc') THEN 1 ELSE 0)

(***************************************************************************)
(* continuousPolling (129-156).                                            *)
(***************************************************************************)
\* StartBatch starting the window at the current id (startId = latestAccount.id)
StartBatchAtCurrent(latest) ==
    /\ startId' = latest.id
    /\ endId' = latest.id + IDS_TO_CHECK - 1
    /\ id' = latest.id
    /\ pc' = "poll"

\* StartBatch starting the window one id too high (startId = latestAccount.id + 2)
StartBatchSkipsOne(latest) ==
    /\ startId' = latest.id + 2
    /\ endId' = latest.id + 2 + IDS_TO_CHECK - 1
    /\ id' = latest.id + 2
    /\ pc' = "poll"

\* lines 139-142: a batch starts; its window is fixed here
StartBatch(latest) ==
    /\ startId' = latest.id + 1
    /\ endId' = latest.id + 1 + IDS_TO_CHECK - 1
    /\ id' = latest.id + 1
    /\ pc' = IF latest.id + 1 <= latest.id + 1 + IDS_TO_CHECK - 1
             THEN "poll" ELSE "interval"

\* lines 130-139: entry of continuousPolling, called with `latest` current
ContinuousPolling(latest) ==
    IF latest = Null
    THEN /\ pc' = "idle"
         /\ UNCHANGED <<pollVars, loops>>
    ELSE /\ StartBatch(latest)
         /\ loops' = loops + 1

\* PollProbe assigning latestAccount before testing the result
PollProbeUnconditional(resp, writeOk) ==
    LET account == CheckAccount(id, resp)
    IN /\ pc = "poll"
       /\ outcome' = Class(resp)
       /\ latestAccount' = account
       /\ IF account # Null
          THEN SaveCache(account, writeOk)
          ELSE UNCHANGED <<cache, saveError>>
       /\ pc' = "delay"
       /\ Requests(1)
       /\ UNCHANGED <<exists, isSearching, searchVars, pollVars, timers, loops, response>>

\* PollProbe without the saveCache call of line 148
PollProbeNoSave(resp, writeOk) ==
    LET account == CheckAccount(id, resp)
    IN /\ pc = "poll"
       /\ outcome' = Class(resp)
       /\ latestAccount' = IF account # Null THEN account ELSE latestAccount
       /\ pc' = "delay"
       /\ Requests(1)
       /\ UNCHANGED <<exists, cache, saveError, isSearching, searchVars, pollVars,
                      timers, loops, response>>

\* PollProbe undoing the assignment of line 147 when the write of line 148 fails
PollProbeRollback(resp, writeOk) ==
    LET account == CheckAccount(id, resp)
    IN /\ pc = "poll"
       /\ outcome' = Class(resp)
       /\ IF account # Null
          THEN /\ latestAccount' = IF writeOk THEN account ELSE latestAccount
               /\ SaveCache(account, writeOk)
          ELSE UNCHANGED <<latestAccount, cache, saveError>>
       /\ pc' = "delay"
       /\ Requests(1)
       /\ UNCHANGED <<exists, isSearching, searchVars, pollVars, timers, loops, response>>

\* PollProbe updating the record in place, field by field, and leaving the
\* username of the record it replaces
PollProbeInPlace(resp, writeOk) ==
    LET account == CheckAccount(id, resp)
        patched == [latestAccount EXCEPT !.id = account.id, !.data = account.data]
    IN /\ pc = "poll"
       /\ outcome' = Class(resp)
       /\ IF account # Null
          THEN /\ latestAccount' = patched
               /\ SaveCache(patched, writeOk)
          ELSE UNCHANGED <<latestAccount, cache, saveError>>
       /\ pc' = "delay"
       /\ Requests(1)
       /\ UNCHANGED <<exists, isSearching, searchVars, pollVars, timers, loops, response>>

\* PollProbe recomputing the window from the record it has just installed
PollProbeRecomputes(resp, writeOk) ==
    LET account == CheckAccount(id, resp)
    IN /\ pc = "poll"
       /\ outcome' = Class(resp)
       /\ IF account # Null
          THEN /\ latestAccount' = account
               /\ SaveCache(account, writeOk)
               /\ startId' = account.id + 1
               /\ endId' = account.id + 1 + IDS_TO_CHECK - 1
          ELSE UNCHANGED <<latestAccount, cache, saveError, startId, endId>>
       /\ pc' = "delay"
       /\ Requests(1)
       /\ UNCHANGED <<exists, isSearching, searchVars, id, timers, loops, response>>

\* lines 143-151: the response to the probe at id arrives
PollProbe(resp, writeOk) ==
    LET account == CheckAccount(id, resp)
    IN /\ pc = "poll"
       /\ outcome' = Class(resp)
       /\ IF account # Null
          THEN /\ latestAccount' = account
               /\ SaveCache(account, writeOk)
          ELSE UNCHANGED <<latestAccount, cache, saveError>>
       /\ pc' = "delay"
       /\ Requests(1)
       /\ UNCHANGED <<exists, isSearching, searchVars, pollVars, timers, loops, response>>

\* PollDelay leaving the window after a Found (a break after line 148)
PollDelayBreak ==
    /\ pc = "delay"
    /\ id' = id + 1
    /\ pc' = IF id + 1 <= endId /\ outcome # "Found" THEN "poll" ELSE "interval"
    /\ outcome' = "none"
    /\ Requests(0)
    /\ UNCHANGED <<exists, cache, latestAccount, isSearching, searchVars,
                   startId, endId, saveError, timers, loops, response>>

\* line 151 and the loop header of line 142: the 100 ms delay ends
PollDelay ==
    /\ pc = "delay"
    /\ id' = id + 1
    /\ pc' = IF id + 1 <= endId THEN "poll" ELSE "interval"
    /\ outcome' = "none"
    /\ Requests(0)
    /\ UNCHANGED <<exists, cache, latestAccount, isSearching, searchVars,
                   startId, endId, saveError, timers, loops, response>>

\* PollInterval returning from continuousPolling after one batch
PollIntervalStops ==
    /\ pc = "interval"
    /\ pc' = "idle"
    /\ outcome' = "none"
    /\ loops' = loops - 1
    /\ Requests(0)
    /\ UNCHANGED <<exists, cache, latestAccount, isSearching, searchVars, pollVars,
                   saveError, timers, response>>

\* line 154 and lines 139-142: the polling interval ends, the next batch starts
PollInterval ==
    /\ pc = "interval"
    /\ StartBatch(latestAccount)
    /\ outcome' = "none"
    /\ Requests(0)
    /\ UNCHANGED <<exists, cache, latestAccount, isSearching, searchVars, saveError,
                   timers, loops, response>>

(***************************************************************************)
(* initializeWatcher (161-196).                                            *)
(***************************************************************************)
\* lines 178-180: no current record, the bootstrap search starts
StartBootstrap ==
    /\ isSearching' = TRUE
    /\ EnterSearch(MIN_ID, MAX_ID, "confirm")
    /\ UNCHANGED <<pollVars, loops>>

\* lines 162-180 up to the first await: called from main (441-445) and by
\* a timer of line 189
InitializeWatcher(readOk) ==
    LET cached == LoadCache(readOk)
    IN /\ pc = "main" \/ timers > 0
       /\ timers' = IF pc = "main" THEN timers ELSE timers - 1
       /\ IF cached # Null
          THEN /\ latestAccount' = cached
               /\ pc' = "verify"
               /\ UNCHANGED <<isSearching, searchVars, pollVars, loops>>
          ELSE /\ UNCHANGED latestAccount
               /\ IF latestAccount = Null
                  THEN StartBootstrap
                  ELSE /\ ContinuousPolling(latestAccount)
                       /\ UNCHANGED <<isSearching, searchVars>>
       /\ outcome' = "none"
       /\ Requests(0)
       /\ UNCHANGED <<exists, cache, saveError, response>>

\* Verify keeping the cached record whatever the probe answers
VerifyTrusting(resp) ==
    /\ pc = "verify"
    /\ outcome' = Class(resp)
    /\ UNCHANGED <<latestAccount, isSearching, searchVars>>
    /\ ContinuousPolling(latestAccount)
    /\ Requests(1)
    /\ UNCHANGED <<exists, cache, saveError, timers, response>>

\* Verify adopting the record the probe returned instead of the cached one
VerifyAdoptsVerified(resp) ==
    LET verified == CheckAccount(latestAccount.id, resp)
    IN /\ pc = "verify"
       /\ outcome' = Class(resp)
       /\ latestAccount' = verified
       /\ IF verified = Null
          THEN StartBootstrap
          ELSE /\ UNCHANGED <<isSearching, searchVars>>
               /\ ContinuousPolling(verified)
       /\ Requests(1)
       /\ UNCHANGED <<exists, cache, saveError, timers, response>>

\* lines 171-180 / 195: the response to the verifying probe arrives
Verify(resp) ==
    LET verified == CheckAccount(latestAccount.id, resp)
    IN /\ pc = "verify"
       /\ outcome' = Class(resp)
       /\ IF verified = Null
          THEN /\ latestAccount' = Null
               /\ StartBootstrap
          ELSE /\ UNCHANGED <<latestAccount, isSearching, searchVars>>
               /\ ContinuousPolling(latestAccount)
       /\ Requests(1)
       /\ UNCHANGED <<exists, cache, saveError, timers, response>>

\* lines 83-92 within the bootstrap of line 180
Search(resp) ==
    /\ SearchStep(resp, "confirm")
    /\ Requests(1)
    /\ UNCHANGED <<exists, cache, latestAccount, isSearching, pollVars, saveError,
                   timers, loops, response>>

\* Confirm giving up instead of scheduling the retry of line 189
ConfirmNoRetry(resp, writeOk) ==
    LET account == CheckAccount(latestFound, resp)
    IN /\ pc = "confirm"
       /\ outcome' = Class(resp)
       /\ IF account # Null
          THEN /\ latestAccount' = account
               /\ SaveCache(account, writeOk)
               /\ isSearching' = FALSE
               /\ ContinuousPolling(account)
          ELSE /\ pc' = "idle"
               /\ UNCHANGED <<latestAccount, cache, saveError, isSearching, pollVars,
                              loops>>
       /\ Requests(1)
       /\ UNCHANGED <<exists, searchVars, timers, response>>

\* Confirm scheduling the retry of line 189 on both branches (the setTimeout
\* placed after the if / else)
ConfirmAlwaysReschedules(resp, writeOk) ==
    LET account == CheckAccount(latestFound, resp)
    IN /\ pc = "confirm"
       /\ outcome' = Class(resp)
       /\ IF account # Null
          THEN /\ latestAccount' = account
               /\ SaveCache(account, writeOk)
               /\ isSearching' = FALSE
               /\ ContinuousPolling(account)
          ELSE /\ pc' = "cooldown"
               /\ UNCHANGED <<latestAccount, cache, saveError, isSearching, pollVars,
                              loops>>
       /\ timers' = timers + 1
       /\ Requests(1)
       /\ UNCHANGED <<exists, searchVars, response>>

\* lines 181-195: the response to the confirming probe at latestId arrives
Confirm(resp, writeOk) ==
    LET account == CheckAccount(latestFound, resp)
    IN /\ pc = "confirm"
       /\ outcome' = Class(resp)
       /\ IF account # Null
          THEN /\ latestAccount' = account
               /\ SaveCache(account, writeOk)
               /\ isSearching' = FALSE
               /\ ContinuousPolling(account)
               /\ UNCHANGED timers
          ELSE /\ pc' = "cooldown"
               /\ timers' = timers + 1
               /\ UNCHANGED <<latestAccount, cache, saveError, isSearching, pollVars,
                              loops>>
       /\ Requests(1)
       /\ UNCHANGED <<exists, searchVars, response>>

(***************************************************************************)
(* Shutdown handlers (453-469): the record is saved and the process exits, *)
(* its call frames, timers and requests gone.                              *)
(***************************************************************************)
\* Shutdown without the saveCache call of lines 456 / 465
ShutdownNoSave(writeOk) ==
    /\ pc # "exited"
    /\ pc' = "exited"
    /\ outcome' = "none"
    /\ low' = 0 /\ high' = 0 /\ latestFound' = 0
    /\ argLow' = 0 /\ argHigh' = 0 /\ probes' = 0
    /\ startId' = 0 /\ endId' = 0 /\ id' = 0
    /\ timers' = 0 /\ inFlight' = 0 /\ loops' = 0
    /\ UNCHANGED <<exists, latestAccount, isSearching, response, cache, saveError>>

Shutdown(writeOk) ==
    /\ pc # "exited"
    /\ IF latestAccount # Null
       THEN SaveCache(latestAccount, writeOk)
       ELSE UNCHANGED <<cache, saveError>>
    /\ pc' = "exited"
    /\ outcome' = "none"
    /\ low' = 0 /\ high' = 0 /\ latestFound' = 0
    /\ argLow' = 0 /\ argHigh' = 0 /\ probes' = 0
    /\ startId' = 0 /\ endId' = 0 /\ id' = 0
    /\ timers' = 0 /\ inFlight' = 0 /\ loops' = 0
    /\ UNCHANGED <<exists, latestAccount, isSearching, response>>

(***************************************************************************)
(* The remote service: accounts are created and removed.                   *)
(***************************************************************************)
CreateAccount(i) ==
    /\ pc # "exited"
    /\ i \notin exists
    /\ exists' = exists \cup {i}
    /\ UNCHANGED <<cache, latestAccount, isSearching, pc, searchVars, pollVars,
                   outcome, saveError, timers, inFlight, loops, response>>

RemoveAccount(i) ==
    /\ pc # "exited"
    /\ i \in exists
    /\ exists' = exists \ {i}
    /\ UNCHANGED <<cache, latestAccount, isSearching, pc, searchVars, pollVars,
                   outcome, saveError, timers, inFlight, loops, response>>

(***************************************************************************)
(* Status surface (208-221, 405-411, 414-427): what each read path         *)
(* answers in the current state.                                           *)
(***************************************************************************)
GetLatest ==
    IF latestAccount = Null
    THEN [code |-> 503, searching |-> isSearching]
    ELSE [code |-> 200, id |-> latestAccount.id, username |-> latestAccount.username]

GetHealth ==
    [latestAccountId |-> IF latestAccount # Null THEN latestAccount.id ELSE Null,
     searching |-> isSearching]

GetRoot ==
    [currentLatest |-> IF latestAccount # Null
                       THEN [id |-> latestAccount.id, username |-> latestAccount.username]
                       ELSE Null]

\* lines 208-221: a GET /latest request is served; the handler runs to its
\* end without an await
ReadLatest ==
    /\ pc # "exited"
    /\ response' = GetLatest
    /\ UNCHANGED <<exists, cache, latestAccount, isSearching, pc, searchVars, pollVars,
                   outcome, saveError, timers, inFlight, loops>>

(***************************************************************************)
(* The whole program.                                                      *)
(***************************************************************************)
Init ==
    /\ exists \in SUBSET Ids
    /\ cache \in {Null} \cup CachedRecords
    /\ latestAccount = Null
    /\ isSearching = FALSE
    /\ pc = "main"
    /\ low = 0 /\ high = 0 /\ latestFound = 0
    /\ argLow = 0 /\ argHigh = 0 /\ probes = 0
    /\ startId = 0 /\ endId = 0 /\ id = 0
    /\ outcome = "none"
    /\ saveError = FALSE
    /\ timers = 0 /\ inFlight = 0 /\ loops = 0
    /\ response = [code |-> 0]

\* The id of the probe in flight at each await of checkAccount
\* (lines 171, 83, 181, 143).
ProbeTarget ==
    CASE pc = "verify" -> latestAccount.id
      [] pc = "search" -> Mid
      [] pc = "confirm" -> latestFound
      [] pc = "poll" -> id
      [] OTHER -> 0

Remote ==
    \/ \E i \in Ids : CreateAccount(i)
    \/ \E i \in Ids : RemoveAccount(i)

Next ==
    \/ \E readOk \in BOOLEAN : InitializeWatcher(readOk)
    \/ \E resp \in Responses(ProbeTarget) : Verify(resp)
    \/ \E resp \in Responses(ProbeTarget) : Search(resp)
    \/ \E resp \in Responses(ProbeTarget), writeOk \in BOOLEAN : Confirm(resp, writeOk)
    \/ \E resp \in Responses(ProbeTarget), writeOk \in BOOLEAN : PollProbe(resp, writeOk)
    \/ PollDelay
    \/ PollInterval
    \/ \E writeOk \in BOOLEAN : Shutdown(writeOk)
    \/ Remote

Spec == Init /\ [][Next]_vars

Polling == pc \in {"poll", "delay", "interval"}

\* C3: once the polling loop has started the current record is never cleared,
\* and every replacement installs a record with a strictly greater id.
C3_PollingOnlyAdvances ==
    [][Polling =>
         /\ latestAccount # Null
         /\ latestAccount' # Null
         /\ (latestAccount' = latestAccount \/ latestAccount'.id > latestAccount.id)
         /\ (pc = "poll" /\ pc' = "delay" /\ outcome' = "Found" =>
                latestAccount'.id > latestAccount.id)]_vars

\* the record has just been replaced, for the second time in one batch
C3_Witness ==
    /\ pc = "delay"
    /\ outcome = "Found"
    /\ latestAccount.id = id
    /\ id = endId
    /\ (id - 1) \in exists

\* C4: before a probe of this run has confirmed a record (the verifying probe
\* of a cached record still in flight included) every read path answers
\* 'initializing'.
C4_OnlyConfirmedShown ==
    pc \in {"main", "verify", "search", "confirm", "cooldown"} =>
        /\ GetLatest.code = 503
        /\ GetHealth.latestAccountId = Null
        /\ GetRoot.currentLatest = Null

\* C5: a cached record whose verifying probe answers Absent or Indeterminate
\* is discarded and the bootstrap search starts on [MIN_ID, MAX_ID]; polling
\* is only ever entered by a verifying or confirming probe that answered
\* Found at the id of the record polling starts from.
C5_FailedVerifyBootstraps ==
    [][/\ (pc = "verify" /\ pc' # "verify" /\ outcome' \in {"Absent", "Indeterminate"} =>
             /\ latestAccount' = Null
             /\ pc' = "search"
             /\ low' = MIN_ID /\ high' = MAX_ID /\ probes' = 0)
       /\ (~Polling /\ Polling' =>
             /\ pc \in {"verify", "confirm"}
             /\ outcome' = "Found"
             /\ latestAccount' # Null
             /\ latestAccount'.id = ProbeTarget)]_vars

\* the verifying probe of a cached record has just failed transiently
C5_Witness ==
    /\ pc = "search"
    /\ probes = 0
    /\ outcome = "Indeterminate"
    /\ cache # Null
    /\ latestAccount = Null

\* C6: a cached record whose verifying probe answers Found becomes the
\* current record, and polling starts at its id + 1 without any probe of the
\* binary search.
C6_VerifiedCacheAdopted ==
    [][pc = "verify" /\ pc' # "verify" /\ outcome' = "Found" =>
         /\ latestAccount' = cache
         /\ pc' = "poll"
         /\ startId' = cache.id + 1
         /\ id' = cache.id + 1
         /\ UNCHANGED <<searchVars, isSearching>>]_vars

\* polling has just started from a verified cached record carrying the name
\* an earlier run stored, and no search probe was ever made
C6_Witness ==
    /\ pc = "poll"
    /\ outcome = "Found"
    /\ latestAccount = cache
    /\ latestAccount.username = StaleName(latestAccount.id)
    /\ probes = 0
    /\ id = latestAccount.id + 1

\* C8: every advance is saved in the step that makes it: unless the most
\* recent write failed, the store holds the current record.
C8_StoreFollowsRecord ==
    latestAccount # Null /\ ~saveError => cache = latestAccount

\* polling has just advanced the record and saved it
C8_Witness ==
    /\ pc = "delay"
    /\ outcome = "Found"
    /\ ~saveError
    /\ latestAccount.id = id
    /\ cache = latestAccount

\* C9: the searching flag is false whenever the polling loop is running.
C9_NotSearchingWhilePolling == Polling => ~isSearching

(***************************************************************************)
(* The program against a resource that does not change and answers every   *)
(* probe definitively.                                                     *)
(***************************************************************************)
NextDefinitive ==
    \/ \E readOk \in BOOLEAN : InitializeWatcher(readOk)
    \/ \E resp \in DefinitiveResponses(ProbeTarget) : Verify(resp)
    \/ \E resp \in DefinitiveResponses(ProbeTarget) : Search(resp)
    \/ \E resp \in DefinitiveResponses(ProbeTarget), writeOk \in BOOLEAN :
          Confirm(resp, writeOk)
    \/ \E resp \in DefinitiveResponses(ProbeTarget), writeOk \in BOOLEAN :
          PollProbe(resp, writeOk)
    \/ PollDelay
    \/ PollInterval

SpecDefinitive == Init /\ [][NextDefinitive]_vars

\* the ids of the current batch's window at which an account exists
WindowExisting == {i \in startId..endId : i \in exists}

MaxOf(S) == CHOOSE m \in S : \A x \in S : x <= m

\* C7: a full batch started at record N, every probe definitive, leaves the
\* record at the highest existing id of N+1..N+K, or at N if there is none.
C7_BatchEndsAtHighest ==
    pc = "interval" => latestAccount.id = MaxOf(WindowExisting \cup {startId - 1})

\* a batch that passed an absent id and ended at the existing one above it
C7_Witness ==
    /\ pc = "interval"
    /\ WindowExisting = {endId}
    /\ startId < endId
    /\ latestAccount.id = endId

(***************************************************************************)
(* The program under the fairness of the event loop: a pending timer       *)
(* fires and a probe in flight is answered or times out (REQUEST_TIMEOUT), *)
(* so the tracker's next step is eventually taken.  Signals and the remote *)
(* service are under no obligation.                                        *)
(***************************************************************************)
TrackerNext ==
    \/ \E readOk \in BOOLEAN : InitializeWatcher(readOk)
    \/ \E resp \in Responses(ProbeTarget) : Verify(resp)
    \/ \E resp \in Responses(ProbeTarget) : Search(resp)
    \/ \E resp \in Responses(ProbeTarget), writeOk \in BOOLEAN : Confirm(resp, writeOk)
    \/ \E resp \in Responses(ProbeTarget), writeOk \in BOOLEAN : PollProbe(resp, writeOk)
    \/ PollDelay
    \/ PollInterval

FairSpec == Spec /\ WF_vars(TrackerNext)

\* from here on: no signal has ended the process, the last probe was
\* answered definitively, and the id a finished search returned exists
Settled ==
    /\ pc # "exited"
    /\ outcome # "Indeterminate"
    /\ (pc = "confirm" => latestFound \in exists)

\* C10: a confirming probe that is not Found leads to the cooldown, from
\* which initialization runs again; and if from some point on probes answer
\* definitively and the id the search returns exists, polling eventually
\* starts with a current record.
C10_BootstrapRetriesUntilPolling ==
    /\ [][pc = "confirm" /\ pc' \notin {"confirm", "exited"} /\ outcome' # "Found" =>
            pc' = "cooldown" /\ latestAccount' = Null]_vars
    /\ [](pc = "cooldown" => ENABLED (\E readOk \in BOOLEAN : InitializeWatcher(readOk)))
    /\ (<>[]Settled => <>(Polling /\ latestAccount # Null))

\* polling entered from a retry after a failed bootstrap: the flag of the
\* failed attempt is still set
C10_Witness ==
    /\ pc = "poll"
    /\ outcome = "Found"
    /\ isSearching
    /\ latestAccount # Null

\* C11: at most one probe of the tracker is in flight and at most one polling
\* loop exists; while a polling loop exists no verification or bootstrap
\* search runs and no retry is pending; while a retry is pending nothing
\* else of the tracker runs.
C11_OneThreadOfControl ==
    /\ inFlight <= 1
    /\ loops <= 1
    /\ timers <= 1
    /\ (loops > 0 => pc \notin {"verify", "search", "confirm"} /\ timers = 0)
    /\ (timers > 0 => inFlight = 0 /\ loops = 0)

\* the polling loop running after a retry fired by the timer of line 189
C11_Witness ==
    /\ pc = "poll"
    /\ isSearching
    /\ loops = 1
    /\ inFlight = 1
    /\ timers = 0

\* C12: a Found whose write to the store fails still installs the new record:
\* readers see it, the store keeps what it held, the loop goes on to its
\* delay, and every batch starts from the record in memory.
C12_FailedWriteKeepsGoing ==
    /\ [][pc = "poll" /\ pc' = "delay" /\ outcome' = "Found" /\ saveError' =>
            /\ latestAccount' # Null
            /\ latestAccount'.id = id
            /\ GetLatest'.code = 200
            /\ GetLatest'.id = id
            /\ GetHealth'.latestAccountId = id
            /\ cache' = cache]_vars
    /\ [][pc = "interval" /\ pc' = "poll" => id' = latestAccount.id + 1]_vars
    /\ [](Polling /\ saveError => ENABLED (PollDelay \/ PollInterval
               \/ \E resp \in Responses(ProbeTarget), writeOk \in BOOLEAN :
                      PollProbe(resp, writeOk)))

\* a batch has started from a record the store does not hold
C12_Witness ==
    /\ pc = "poll"
    /\ saveError
    /\ cache # latestAccount
    /\ id = startId
    /\ startId = latestAccount.id + 1
    /\ outcome = "none"

\* C13 as claimed: after a signal was handled with a current record, the
\* store holds that record.
C13_RecordStoredAtExit ==
    pc = "exited" /\ latestAccount # Null => cache = latestAccount

\* C13 as amended: the handler writes the current record to the store before
\* the exit, and the store holds it unless that write fails (the failure is
\* logged and the store keeps what it held), so in every state with a record
\* a signal whose write succeeds leaves the record in the store; nothing
\* changes after the exit.
C13_ExitSavesUnlessWriteFails ==
    /\ [][pc # "exited" /\ pc' = "exited" /\ latestAccount # Null =>
            /\ latestAccount' = latestAccount
            /\ (~saveError' => cache' = latestAccount)
            /\ (saveError' => cache' = cache)]_vars
    /\ [](pc # "exited" /\ latestAccount # Null =>
            ENABLED (Shutdown(TRUE) /\ cache' = latestAccount /\ ~saveError'))
    /\ [][pc = "exited" => UNCHANGED vars]_vars
    /\ [](pc = "exited" => inFlight = 0 /\ timers = 0 /\ loops = 0)

\* a signal was handled while a current record existed, and the store
\* holds that record
C13_Witness ==
    /\ pc = "exited"
    /\ latestAccount # Null
    /\ cache = latestAccount
    /\ ~saveError

(***************************************************************************)
(* The program with GET /latest requests served between the tracker's      *)
(* steps.                                                                  *)
(***************************************************************************)
NextReads ==
    \/ \E readOk \in BOOLEAN : InitializeWatcher(readOk)
    \/ \E resp \in DefinitiveResponses(ProbeTarget) : Verify(resp)
    \/ \E resp \in DefinitiveResponses(ProbeTarget) : Search(resp)
    \/ \E resp \in DefinitiveResponses(ProbeTarget), writeOk \in BOOLEAN :
          Confirm(resp, writeOk)
    \/ \E resp \in DefinitiveResponses(ProbeTarget), writeOk \in BOOLEAN :
          PollProbe(resp, writeOk)
    \/ PollDelay
    \/ PollInterval
    \/ ReadLatest

SpecReads == Init /\ [][NextReads]_vars

\* C14: the id and the username a read returns belong to one record: a
\* record a probe built or a cached record, never the id of one with the
\* username of another.
C14_NoTornRead ==
    response.code = 200 =>
        \E r \in CachedRecords : r.id = response.id /\ r.username = response.username

\* a read was served before a replacement and the record has since advanced
C14_Witness ==
    /\ response.code = 200
    /\ latestAccount # Null
    /\ response.id < latestAccount.id
    /\ response.username # latestAccount.username

\* C16: while polling, a probe answered Absent or Indeterminate leaves the
\* current record, the store and the searching flag as they were; only the
\* step of a Found probe changes any of them.
C16_OnlyFoundChangesState ==
    /\ [][pc = "poll" /\ pc' = "delay" /\ outcome' \in {"Absent", "Indeterminate"} =>
            (UNCHANGED <<latestAccount, cache, isSearching, saveError>>)]_vars
    /\ [][Polling /\ pc' # "exited"
            /\ <<latestAccount, cache, isSearching>>' # <<latestAccount, cache, isSearching>> =>
            pc = "poll" /\ pc' = "delay" /\ outcome' = "Found"]_vars

\* a probe at an existing id failed transiently and the record stayed below it
C16_Witness ==
    /\ pc = "delay"
    /\ outcome = "Indeterminate"
    /\ id \in exists
    /\ latestAccount.id < id

\* C17: the window of a batch is fixed when the batch starts, at the K ids
\* above the record current at that moment; the batch probes them one by
\* one in increasing order whether or not the record advances, and ends
\* after the last.
C17_WindowFixedAtBatchStart ==
    /\ [][pc' = "poll" /\ pc \notin {"poll", "delay"} =>
            /\ startId' = latestAccount'.id + 1
            /\ endId' = startId' + IDS_TO_CHECK - 1
            /\ id' = startId']_vars
    /\ [][(pc \in {"poll", "delay"}) /\ pc' \in {"poll", "delay", "interval"} =>
            (UNCHANGED <<startId, endId>>)]_vars
    /\ [][pc = "poll" /\ pc' = "delay" => id' = id]_vars
    /\ [][pc = "delay" /\ pc' = "poll" => id' = id + 1]_vars
    /\ [][pc = "delay" /\ pc' = "interval" => id = endId]_vars
    /\ [](pc = "poll" => ProbeTarget = id /\ startId <= id /\ id <= endId)

\* the last id of a window is about to be probed although the record already
\* advanced within this batch
C17_Witness ==
    /\ pc = "poll"
    /\ id = endId
    /\ startId < endId
    /\ latestAccount.id >= startId

\* an account at id i exists in the window above the current record
Ahead(i) ==
    /\ Polling
    /\ i \in exists
    /\ latestAccount.id < i
    /\ i <= latestAccount.id + IDS_TO_CHECK

\* C19: the polling loop leaves polling only when a signal ends the process
\* and always has a next step; under fairness of the tracker's steps, once
\* an account exists at an id within K above the current record, the record
\* eventually reaches that id, unless a signal ends the process or a
\* polling probe at that id answers other than Found.
C19_PollingRunsAndCatchesUp ==
    /\ [][Polling => Polling' \/ pc' = "exited"]_vars
    /\ [](Polling => loops = 1 /\ ENABLED TrackerNext)
    /\ \A i \in (MIN_ID + 1)..MaxWorld :
          Ahead(i) ~> \/ Polling /\ latestAccount.id >= i
                      \/ pc = "exited"
                      \/ pc = "delay" /\ id = i /\ outcome # "Found"

\* a later batch found the account at the last id of its window
C19_Witness ==
    /\ pc = "interval"
    /\ latestAccount.id = endId
    /\ latestAccount.id = MaxWorld
    /\ startId > MIN_ID + 1

\* C20: polling never probes an id at or below the current record's id; the
\* record changes only by a Found probe inside the K-wide window fixed at
\* the start of the batch, so while no id of the window probes Found the
\* record stays, whatever exists above the window.
C20_AdvanceOnlyWithinWindow ==
    /\ [](pc = "poll" => id > latestAccount.id)
    /\ [](Polling => startId - 1 <= latestAccount.id /\ endId = startId - 1 + IDS_TO_CHECK)
    /\ [][Polling /\ latestAccount' # latestAccount =>
            /\ pc = "poll" /\ outcome' = "Found"
            /\ latestAccount'.id = id
            /\ startId <= id /\ id <= startId - 1 + IDS_TO_CHECK]_vars

\* a batch at its last probe with nothing found, while an account exists
\* above the window
C20_Witness ==
    /\ pc = "poll"
    /\ id = endId
    /\ latestAccount.id = startId - 1
    /\ WindowExisting = {}
    /\ \E j \in exists : j > endId

(***************************************************************************)
(* The end-to-end scenario: an empty store that works, accounts exactly at *)
(* the ids 1..T within [MIN_ID, MAX_ID], every probe answered              *)
(* definitively; between two batches the remote service creates the next   *)
(* id.                                                                     *)
(***************************************************************************)
InitScenario ==
    /\ \E t \in MIN_ID..MAX_ID : exists = 1..t
    /\ cache = Null
    /\ latestAccount = Null
    /\ isSearching = FALSE
    /\ pc = "main"
    /\ low = 0 /\ high = 0 /\ latestFound = 0
    /\ argLow = 0 /\ argHigh = 0 /\ probes = 0
    /\ startId = 0 /\ endId = 0 /\ id = 0
    /\ outcome = "none"
    /\ saveError = FALSE
    /\ timers = 0 /\ inFlight = 0 /\ loops = 0
    /\ response = [code |-> 0]

\* the account after the highest one is created while the loop sleeps
\* between two batches (line 154)
CreateNextAccount ==
    /\ pc = "interval"
    /\ latestAccount.id = Cardinality(exists)
    /\ Cardinality(exists) < MaxWorld
    /\ CreateAccount(Cardinality(exists) + 1)

NextScenario ==
    \/ \E readOk \in BOOLEAN : InitializeWatcher(readOk)
    \/ \E resp \in DefinitiveResponses(ProbeTarget) : Search(resp)
    \/ \E resp \in DefinitiveResponses(ProbeTarget) : Confirm(resp, TRUE)
    \/ \E resp \in DefinitiveResponses(ProbeTarget) : PollProbe(resp, TRUE)
    \/ PollDelay
    \/ PollInterval
    \/ CreateNextAccount
    \/ ReadLatest

SpecScenario == InitScenario /\ [][NextScenario]_vars

\* the highest existing id (the accounts are exactly 1..Highest)
Highest == Cardinality(exists)

\* C15: initialization ends with the current record at T and the same record
\* in the store; after id T+1 is created, the next batch leaves the record
\* at T+1 and in the store.  The record is below the highest id only from
\* the creation until the probe of the next batch at that id is answered.
C15_EndToEnd ==
    /\ (pc \in {"main", "search", "confirm"} => latestAccount = Null /\ cache = Null)
    /\ pc \notin {"cooldown", "verify", "idle"}
    /\ (Polling =>
          /\ latestAccount # Null
          /\ cache = latestAccount
          /\ latestAccount = Fresh(latestAccount.id)
          /\ \/ latestAccount.id = Highest
             \/ /\ latestAccount.id = Highest - 1
                /\ pc = "interval" \/ (pc = "poll" /\ id = Highest))
    /\ (pc = "delay" => latestAccount.id = Highest)

\* the batch after the creation of T+1 has ended: record and store at T+1
C15_Witness ==
    /\ pc = "interval"
    /\ Highest = MAX_ID + 1
    /\ latestAccount.id = Highest
    /\ cache = latestAccount
    /\ startId = Highest

(***************************************************************************)
(* binarySearchLatest(low, high) on its own, for every range low <= high   *)
(* within 1..MaxSearch, against a resource where accounts exist exactly at *)
(* the ids up to a threshold T (low <= T <= high) and every probe is       *)
(* answered definitively.                                                  *)
(***************************************************************************)
InitSearchMono ==
    /\ \E l \in 1..MaxSearch : \E h \in l..MaxSearch : \E t \in l..h :
          /\ low = l /\ high = h /\ latestFound = l
          /\ argLow = l /\ argHigh = h
          /\ exists = 1..t
    /\ probes = 0
    /\ pc = "search"
    /\ cache = Null
    /\ latestAccount = Null
    /\ isSearching = FALSE
    /\ startId = 0 /\ endId = 0 /\ id = 0
    /\ outcome = "none"
    /\ saveError = FALSE
    /\ timers = 0 /\ inFlight = 1 /\ loops = 0
    /\ response = [code |-> 0]

\* lines 83-95 of a search called on its own: it returns latestFound
SearchAlone(resp) ==
    /\ SearchStep(resp, "returned")
    /\ Requests(1)
    /\ UNCHANGED <<exists, cache, latestAccount, isSearching, pollVars, saveError,
                   timers, loops, response>>

NextSearchMono == \E resp \in DefinitiveResponses(ProbeTarget) : SearchAlone(resp)

SpecSearchMono == InitSearchMono /\ [][NextSearchMono]_vars

\* the threshold T of a resource whose accounts are exactly 1..T
Threshold == Cardinality(exists)

\* C1: over a monotonic existence predicate with threshold T in [low, high]
\* and definitive probes, binarySearchLatest(low, high) returns exactly T.
C1_SearchReturnsThreshold == pc = "returned" => latestFound = Threshold

\* a search that moved both ways and returned a threshold strictly inside
\* its range
C1_Witness ==
    /\ pc = "returned"
    /\ latestFound = Threshold
    /\ argLow < latestFound /\ latestFound < argHigh
    /\ probes >= 3

(***************************************************************************)
(* The same searches when a probe can also fail transiently (a timeout, a  *)
(* connection error, an unexpected status) at any id.                      *)
(***************************************************************************)
NextSearchFlaky == \E resp \in Responses(ProbeTarget) : SearchAlone(resp)

SpecSearchFlaky == InitSearchMono /\ [][NextSearchFlaky]_vars

\* C2: with accounts exactly at the ids <= T and probes that can fail
\* transiently, the search never returns a result lower than T.
C2_NeverBelowThreshold == pc = "returned" => latestFound >= Threshold

(***************************************************************************)
(* binarySearchLatest(low, high) on its own against any set of existing    *)
(* accounts and any answers; an await of checkAccount always completes     *)
(* (REQUEST_TIMEOUT).                                                      *)
(***************************************************************************)
InitSearchAny ==
    /\ \E l \in 1..MaxSearch : \E h \in l..MaxSearch :
          /\ low = l /\ high = h /\ latestFound = l
          /\ argLow = l /\ argHigh = h
    /\ exists \in SUBSET (1..MaxSearch)
    /\ probes = 0
    /\ pc = "search"
    /\ cache = Null
    /\ latestAccount = Null
    /\ isSearching = FALSE
    /\ startId = 0 /\ endId = 0 /\ id = 0
    /\ outcome = "none"
    /\ saveError = FALSE
    /\ timers = 0 /\ inFlight = 1 /\ loops = 0
    /\ response = [code |-> 0]

NextSearchAny == \E resp \in Responses(ProbeTarget) : SearchAlone(resp)

SpecSearchAny == InitSearchAny /\ [][NextSearchAny]_vars /\ WF_vars(NextSearchAny)

RECURSIVE Log2Floor(_)
Log2Floor(n) == IF n <= 1 THEN 0 ELSE 1 + Log2Floor(n \div 2)

\* C18: for every low <= high and every sequence of answers the interval
\* shrinks at every iteration, the search makes at most
\* floor(log2(high - low + 1)) + 1 probes, and it returns.
C18_SearchTerminates ==
    /\ [][pc = "search" => high' - low' < high - low]_vars
    /\ [](probes <= Log2Floor(argHigh - argLow + 1) + 1)
    /\ [](pc = "search" => low <= high)
    /\ <>(pc = "returned")

\* a search that needed every probe of the bound on a range of eight ids
C18_Witness ==
    /\ pc = "returned"
    /\ argHigh - argLow + 1 = 8
    /\ probes = 4

====
